---- MODULE Spec2Model ----
(***************************************************************************)
(* Model of the single-tool-call agent pipeline of agentic-platform-mcp:   *)
(* the LangGraph state machine of src/graph/langgraph_agent.py together    *)
(* with the host, generator client and typed-schema registry it drives     *)
(* (Spec), one MCP session of src/host/multi_mcp_host.py with its reader   *)
(* thread step by step (SessionSpec), and main() around both (MainSpec).   *)
(*                                                                         *)
(* Python dicts are modelled as functions with a finite string domain, so  *)
(* that an absent key is an absent key (state.get("blocked"), "result" in  *)
(* resp, out["note"] = ...).  Texts are sequences of tokens.               *)
(***************************************************************************)
EXTENDS Integers, Sequences, FiniteSets, TLC

VARIABLES
    state,      \* the AgentState dict threaded through the graph
    pc,         \* the graph node about to run, or END / returned / raised
    env,        \* process environment: SAFE_SUMMARIZE
    visited,    \* nodes that have run, in order
    listReqs,   \* servers that were sent tools/list, in order
    llmCalls,   \* generator calls made, in order: the stage and the reply
    hostCalls,  \* host.call(server, tool) invocations made, in order
    discovery,  \* what host.tools_all() returned in this run
    result,     \* what run_once returned, or why it raised
    clock,      \* wall clock as time.time() reads it, in ticks
    host,       \* the calling thread: where it is in connect_all / tools_all / call
    sessions,   \* per server: messages_url, reader thread, _inbox, _errors
    sent,       \* per server: the requests POSTed, in order
    answered,   \* per server: which of the sent requests the server has answered
    strays,     \* number of unsolicited messages servers have sent
    waits,      \* what the latest wait_for_id returned, with the id waited for
    attempted,  \* servers whose connect() was started, in order
    lock,       \* who holds the session's _lock: nobody, the reader or the caller
    readerAt,   \* the reader thread inside on_event: the event it is handling
    accesses    \* reads and writes of session fields made so far, by whom
                \* and whether _lock was held

pipeVars == <<state, pc, env, visited, listReqs, llmCalls, hostCalls, discovery, result>>

hostVars == <<clock, host, sessions, sent, answered, strays, waits, attempted>>

lockVars == <<lock, readerAt, accesses>>

vars == <<state, pc, env, visited, listReqs, llmCalls, hostCalls, discovery, result,
          clock, host, sessions, sent, answered, strays, waits, attempted,
          lock, readerAt, accesses>>

----------------------------------------------------------------------------
(* Bounds *)

MaxQueryLen == 2

\* clock ticks that may pass while no wait is pending
MaxClock == 1

\* clock ticks of a 10 s wait; the 20 s wait of call_tool is twice as long
TimeoutTicks == 1

\* unsolicited messages the servers send in one run
MaxStray == 1

----------------------------------------------------------------------------
(* Python dict helpers *)

EmptyDict == [k \in {} |-> TRUE]

Has(d, k) == k \in DOMAIN d

Put(d, k, v) == [x \in (DOMAIN d) \cup {k} |-> IF x = k THEN v ELSE d[x]]

\* state.get("blocked"): truthiness of an optional boolean key
\* state.get(key) sees no flag at all
never_truthy(d, k) == FALSE

Truthy(d, k) == Has(d, k) /\ d[k] = TRUE

----------------------------------------------------------------------------
(* Queries: a query is a non-empty sequence of words *)

SpIds == {"sp-001"}
PolicyIds == {"policy-001"}
TicketIds == {"INC001"}
DenyWords == {"exfiltrate"}
PlainWords == {"what", "summarize"}

Words == SpIds \cup PolicyIds \cup TicketIds \cup DenyWords \cup PlainWords

Queries == UNION {[1..n -> Words] : n \in 1..MaxQueryLen}

\* re.search(pattern, q): the first word of the query that matches, or none
FirstMatch(q, family) ==
    IF \E i \in 1..Len(q) : q[i] \in family
    THEN LET i == CHOOSE j \in 1..Len(q) :
                      /\ q[j] \in family
                      /\ \A k \in 1..(j - 1) : q[k] \notin family
         IN <<q[i]>>
    ELSE <<>>

_wants_summary(q) == \E i \in 1..Len(q) : q[i] = "summarize"

_summarize_enabled == env.SAFE_SUMMARIZE = "1"

Plan(server, tool, args) ==
    [type |-> "call_tool", server |-> server, tool |-> tool, args |-> args]

NoPlan == [type |-> "<None>"]

\* the router with the ticket family left out
router_without_tickets(user_query) ==
    LET sp  == FirstMatch(user_query, SpIds)
        pol == FirstMatch(user_query, PolicyIds)
    IN IF sp # <<>>
       THEN Plan("mcp-sharepoint", "fetch_sharepoint_doc", [doc_id |-> sp[1]])
       ELSE IF pol # <<>>
       THEN Plan("mcp-policy-kb", "fetch_policy_entry", [policy_id |-> pol[1]])
       ELSE NoPlan

_deterministic_plan_from_ids(user_query) ==
    LET sp  == FirstMatch(user_query, SpIds)
        pol == FirstMatch(user_query, PolicyIds)
        sn  == FirstMatch(user_query, TicketIds)
    IN IF sp # <<>>
       THEN Plan("mcp-sharepoint", "fetch_sharepoint_doc", [doc_id |-> sp[1]])
       ELSE IF pol # <<>>
       THEN Plan("mcp-policy-kb", "fetch_policy_entry", [policy_id |-> pol[1]])
       ELSE IF sn # <<>>
       THEN Plan("mcp-servicenow", "get_ticket", [ticket_id |-> sn[1]])
       ELSE NoPlan

HasIdentifier(q) == \E i \in 1..Len(q) : q[i] \in SpIds \cup PolicyIds \cup TicketIds

\* safety.policy_check_user_query as specified (4.1): a denylist match
policy_check_user_query(q) ==
    IF \E i \in 1..Len(q) : q[i] \in DenyWords
    THEN [ok |-> FALSE, reason |-> "unsafe query"]
    ELSE [ok |-> TRUE, reason |-> "ok"]

----------------------------------------------------------------------------
(* Capability servers and the typed-schema registry *)

Servers == {"mcp-sharepoint", "mcp-servicenow", "mcp-policy-kb"}

Descriptor(name, required) ==
    [name |-> name, description |-> "d", inputSchema |-> [required |-> required]]

\* the tools/list answer of mcp-policy-kb: its two @mcp.tool() functions
PolicyKBTools ==
    << Descriptor("search_policies", {"query"}),
       Descriptor("get_policy", {"policy_id"}) >>

\* the sharepoint and servicenow servers are external; their tools are the
\* ones the typed registry and the router name
SharePointTools ==
    << Descriptor("search_sharepoint", {"query"}),
       Descriptor("fetch_sharepoint_doc", {"doc_id"}) >>

ServiceNowTools ==
    << Descriptor("search_servicenow_tickets", {"query"}),
       Descriptor("get_ticket", {"ticket_id"}) >>

ServerTools(server) ==
    CASE server = "mcp-policy-kb" -> PolicyKBTools
      [] server = "mcp-sharepoint" -> SharePointTools
      [] server = "mcp-servicenow" -> ServiceNowTools

\* typed_models.py: the required fields of each model and of its hits
ModelFields(model) ==
    CASE model = "SharePointDoc" -> {"doc_id", "content"}
      [] model = "ServiceNowTicket" -> {"ticket_id", "content"}
      [] model = "PolicyDoc" -> {"policy_id", "content"}
      [] model \in {"SharePointSearchResult", "ServiceNowSearchResult",
                    "PolicyKBSearchResult"} -> {"query"}

HitFields(model) ==
    CASE model = "SharePointSearchResult" -> {"doc_id", "title", "snippet"}
      [] model = "ServiceNowSearchResult" -> {"ticket_id", "title", "snippet"}
      [] model = "PolicyKBSearchResult" -> {"policy_id", "title", "snippet"}
      [] OTHER -> {}

IsSearchModel(model) ==
    model \in {"SharePointSearchResult", "ServiceNowSearchResult", "PolicyKBSearchResult"}

TOOL_OUTPUT_MODELS ==
    ( <<"mcp-sharepoint", "search_sharepoint">> :> "SharePointSearchResult" ) @@
    ( <<"mcp-sharepoint", "fetch_sharepoint_doc">> :> "SharePointDoc" ) @@
    ( <<"mcp-servicenow", "search_servicenow_tickets">> :> "ServiceNowSearchResult" ) @@
    ( <<"mcp-servicenow", "get_ticket">> :> "ServiceNowTicket" ) @@
    ( <<"mcp-policy-kb", "search_policies">> :> "PolicyKBSearchResult" ) @@
    ( <<"mcp-policy-kb", "get_policy">> :> "PolicyDoc" )

----------------------------------------------------------------------------
(* Host: discovery and invocation (src/host/multi_mcp_host.py) *)

\* the servers the host holds a session for (main(): all three)
Sessions == Servers

\* what one session's list_tools() can do: return a response or raise
NamelessTool == [description |-> "d"]

ListOutcomes(server) ==
    { [exc |-> "none", resp |-> [result |-> [tools |-> ServerTools(server)]]],
      [exc |-> "none", resp |-> [result |-> [tools |-> SubSeq(ServerTools(server), 1, 1)]]],
      [exc |-> "none", resp |-> [result |-> [tools |-> <<ServerTools(server)[1], NamelessTool>>]]],
      [exc |-> "none", resp |-> [error |-> "rpc error"]],
      [exc |-> "TimeoutError", resp |-> EmptyDict],
      [exc |-> "MCPProtocolError", resp |-> EmptyDict] }

\* MultiMCPHost.tools_all: every session is asked; an exception becomes an
\* {"error": ...} entry
tools_all(outcomes) ==
    [name \in Sessions |->
        IF outcomes[name].exc = "none"
        THEN outcomes[name].resp
        ELSE [error |-> outcomes[name].exc]]

ToolsOf(resp) == IF Has(resp.result, "tools") THEN resp.result.tools ELSE <<>>

\* planner.build_tool_catalog followed by json.loads: t["name"] raises on a
\* tool entry without a name
build_tool_catalog(servers_to_tools) ==
    IF \E server \in DOMAIN servers_to_tools :
          \E i \in 1..Len(ToolsOf(servers_to_tools[server])) :
              ~Has(ToolsOf(servers_to_tools[server])[i], "name")
    THEN [exc |-> "KeyError", catalog |-> EmptyDict]
    ELSE [exc |-> "none",
          catalog |-> [server \in DOMAIN servers_to_tools |->
              [i \in 1..Len(ToolsOf(servers_to_tools[server])) |->
                  LET t == ToolsOf(servers_to_tools[server])[i]
                  IN [name |-> t.name,
                      description |-> IF Has(t, "description") THEN t.description ELSE "",
                      inputSchema |-> IF Has(t, "inputSchema") THEN t.inputSchema
                                      ELSE EmptyDict]]]]

\* what one session's call_tool() can do: return the JSON-RPC response or
\* raise out of wait_for_id / rpc
IdField(server) ==
    CASE server = "mcp-sharepoint" -> "doc_id"
      [] server = "mcp-servicenow" -> "ticket_id"
      [] OTHER -> "policy_id"

BodyText == <<"never", "log", "secrets">>

\* _to_source_text: max_chars, and the length of "\n...[TRUNCATED]..."
max_chars == 8000

MarkerChars == 18

\* a document body longer than any bound on the source text: a run of
\* max_chars + MarkerChars characters after its first word
LongRun == "<run of characters>"

LongText == <<"never", LongRun>>

\* len(text): a run counts its characters, any other token at least one
Chars(text) ==
    LET n[i \in 0..Len(text)] ==
            IF i = 0 THEN 0
            ELSE n[i - 1] + (IF text[i] = LongRun THEN max_chars + MarkerChars ELSE 1)
    IN n[Len(text)]
NotFoundText == <<"NOT_FOUND">>

DocPayload(server, content) ==
    Put(Put(EmptyDict, IdField(server), <<"id-1">>), "content", content)

Hit(server, fields) ==
    [k \in fields |-> IF k = IdField(server) THEN <<"id-1">> ELSE <<"pii">>]

SearchPayload(server, fields) ==
    [query |-> <<"pii">>, results |-> <<Hit(server, fields)>>]

CallOutcomes(server) ==
    { [exc |-> "none", resp |-> [result |-> DocPayload(server, BodyText)]],
      [exc |-> "none", resp |-> [result |-> DocPayload(server, NotFoundText)]],
      [exc |-> "none", resp |-> [result |-> DocPayload(server, LongText)]],
      [exc |-> "none", resp |-> [result |->
            SearchPayload(server, {IdField(server), "title", "snippet"})]],
      [exc |-> "none", resp |-> [result |->
            SearchPayload(server, {IdField(server), "title"})]],
      [exc |-> "none", resp |-> [error |-> "rpc error"]],
      [exc |-> "TimeoutError", resp |-> EmptyDict],
      [exc |-> "MCPProtocolError", resp |-> EmptyDict] }

\* MultiMCPHost.call: KeyError for a server without a session, else the
\* session's call_tool
call(server, tool, args, outcome) ==
    IF server \notin Sessions
    THEN [exc |-> "KeyError", resp |-> EmptyDict]
    ELSE outcome

----------------------------------------------------------------------------
(* Generator client (src/host/llm_client.py) *)

\* Texts are sequences of tokens: "{" and "}", blank " ", prose "w", a
\* number "42", and atoms standing for the members of one JSON object.
PlanAtoms ==
    {"p_search_policies", "p_fetch_doc", "p_unknown_tool", "p_unknown_server",
     "p_bad_args", "p_final"}

SummaryAtoms == {"s_grounded", "s_ungrounded", "s_badtype"}

Atoms == PlanAtoms \cup SummaryAtoms

Item(claim, evidence) == [claim |-> claim, evidence |-> evidence]

AtomDict(a) ==
    CASE a = "p_search_policies" ->
            Plan("mcp-policy-kb", "search_policies", [query |-> "pii"])
      [] a = "p_fetch_doc" ->
            Plan("mcp-sharepoint", "fetch_sharepoint_doc", [doc_id |-> "sp-002"])
      [] a = "p_unknown_tool" ->
            Plan("mcp-servicenow", "delete_ticket", [ticket_id |-> "INC002"])
      [] a = "p_unknown_server" ->
            Plan("mcp-ghost", "get_policy", [policy_id |-> "policy-002"])
      [] a = "p_bad_args" ->
            Plan("mcp-policy-kb", "search_policies", [q |-> "pii"])
      [] a = "p_final" ->
            [type |-> "final_answer", answer |-> "which policy?", needs_more_info |-> TRUE]
      [] a = "s_grounded" ->
            [type |-> "summary",
             bullets |-> <<Item(<<"c">>, <<"never", "log">>)>>,
             risks |-> <<>>,
             recommendations |-> <<Item(<<"c">>, <<"secrets">>)>>]
      [] a = "s_ungrounded" ->
            [type |-> "summary",
             bullets |-> <<Item(<<"c">>, <<"never", "log">>)>>,
             risks |-> <<Item(<<"c">>, <<"log", "never">>)>>,
             recommendations |-> <<>>]
      [] a = "s_badtype" ->
            [type |-> "note", bullets |-> <<>>, risks |-> <<>>, recommendations |-> <<>>]

\* str.strip()
RECURSIVE LStrip(_)
LStrip(text) ==
    IF text # <<>> /\ Head(text) = " " THEN LStrip(Tail(text)) ELSE text

RECURSIVE RStrip(_)
RStrip(text) ==
    IF text # <<>> /\ text[Len(text)] = " "
    THEN RStrip(SubSeq(text, 1, Len(text) - 1))
    ELSE text

Strip(text) == RStrip(LStrip(text))

\* str.find / str.rfind, 1-based, 0 when absent
Find(text, tok) ==
    IF \E i \in 1..Len(text) : text[i] = tok
    THEN CHOOSE i \in 1..Len(text) :
            text[i] = tok /\ \A j \in 1..(i - 1) : text[j] # tok
    ELSE 0

RFind(text, tok) ==
    IF \E i \in 1..Len(text) : text[i] = tok
    THEN CHOOSE i \in 1..Len(text) :
            text[i] = tok /\ \A j \in (i + 1)..Len(text) : text[j] # tok
    ELSE 0

\* json.loads: an object { atom }, the empty object { }, or a number
JsonOk(text) ==
    \/ Len(text) = 3 /\ text[1] = "{" /\ text[2] \in Atoms /\ text[3] = "}"
    \/ text = <<"{", "}">>
    \/ text = <<"42">>

JsonValue(text) ==
    IF Len(text) = 3 THEN [t |-> "dict", v |-> AtomDict(text[2]), repr |-> text]
    ELSE IF Len(text) = 2 THEN [t |-> "dict", v |-> EmptyDict, repr |-> text]
    ELSE [t |-> "int", v |-> EmptyDict, repr |-> text]

NoValue == [t |-> "none", v |-> EmptyDict, repr |-> <<>>]

\* LLMClient.chat_json on the generator's reply
chat_json(reply) ==
    IF reply.exc # "none"
    THEN [exc |-> reply.exc, value |-> NoValue]
    ELSE LET content == Strip(reply.content)
             start == Find(content, "{")
             end == RFind(content, "}")
         IN IF JsonOk(content)
            THEN [exc |-> "none", value |-> JsonValue(content)]
            ELSE IF start # 0 /\ end # 0 /\ end > start
                    /\ JsonOk(SubSeq(content, start, end))
            THEN [exc |-> "none", value |-> JsonValue(SubSeq(content, start, end))]
            ELSE [exc |-> "JSONDecodeError", value |-> NoValue]

Obj(a) == <<"{", a, "}">>

PlannerReplies ==
    { [exc |-> "none", content |-> Obj(a)] : a \in PlanAtoms } \cup
    { [exc |-> "none", content |-> <<"w", "{", "p_search_policies", "}", "w", " ">>],
      [exc |-> "none", content |-> <<"w", "w">>],
      [exc |-> "none", content |-> <<"42">>],
      [exc |-> "none", content |-> <<"{", "}">>],
      [exc |-> "none", content |-> Obj("p_fetch_doc") \o <<"w", "}">>],
      [exc |-> "RuntimeError", content |-> <<>>] }

SummarizerReplies ==
    { [exc |-> "none", content |-> Obj(a)] : a \in SummaryAtoms } \cup
    { [exc |-> "none", content |-> <<"w", "w">>],
      [exc |-> "none", content |-> <<"42">>],
      [exc |-> "RuntimeError", content |-> <<>>] }

----------------------------------------------------------------------------
(* safety.py, validator.py and typed_parser.py, which the graph imports:   *)
(* their behaviour is taken from the specification (4.3, 4.4, 4.5).        *)

\* spec 4.3: the generator reply must be a JSON object
parse_strict_json_plan(raw) ==
    IF raw.t = "dict"
    THEN [exc |-> "none", plan |-> raw.v]
    ELSE [exc |-> "PlanParseError", plan |-> EmptyDict]

CatalogNames(catalog_dict, server) ==
    {catalog_dict[server][i].name : i \in 1..Len(catalog_dict[server])}

CatalogTool(catalog_dict, server, tool) ==
    LET i == CHOOSE j \in 1..Len(catalog_dict[server]) : catalog_dict[server][j].name = tool
    IN catalog_dict[server][i]

RequiredArgs(t) ==
    IF Has(t.inputSchema, "required") THEN t.inputSchema.required ELSE {}

\* spec 4.4, rules (1)-(4) in order
validate_plan(plan, catalog_dict) ==
    IF ~(Has(plan, "type") /\ plan.type = "call_tool")
    THEN [exc |-> "ValidationError", why |-> "not a call_tool plan"]
    ELSE IF ~(Has(plan, "server") /\ plan.server \in DOMAIN catalog_dict)
    THEN [exc |-> "ValidationError", why |-> "unknown server"]
    ELSE IF ~(Has(plan, "tool") /\ plan.tool \in CatalogNames(catalog_dict, plan.server))
    THEN [exc |-> "ValidationError", why |-> "unknown tool"]
    ELSE IF ~(Has(plan, "args")
              /\ RequiredArgs(CatalogTool(catalog_dict, plan.server, plan.tool))
                    \subseteq DOMAIN plan.args)
    THEN [exc |-> "ValidationError", why |-> "schema violation"]
    ELSE [exc |-> "none", why |-> ""]

\* spec 4.4: (server, tool) must be in the allowlist
enforce_tool_allowlist(server, tool, allowlist) ==
    IF server \in DOMAIN allowlist /\ tool \in allowlist[server]
    THEN [exc |-> "none"]
    ELSE [exc |-> "ToolNotAllowed"]

\* spec 4.5: decode against the registered shape of (server, tool)
parse_typed_tool_output(server, tool, raw) ==
    IF <<server, tool>> \notin DOMAIN TOOL_OUTPUT_MODELS \/ ~Has(raw, "result")
    THEN [exc |-> "ToolOutputParseError", typed |-> EmptyDict]
    ELSE LET model == TOOL_OUTPUT_MODELS[<<server, tool>>]
             payload == raw.result
             hits == IF Has(payload, "results") THEN payload.results ELSE <<>>
         IN IF ~(ModelFields(model) \subseteq DOMAIN payload)
            THEN [exc |-> "ToolOutputParseError", typed |-> EmptyDict]
            ELSE IF ~IsSearchModel(model)
            THEN [exc |-> "none",
                  typed |-> [k \in ModelFields(model) |-> payload[k]]]
            ELSE IF \E i \in 1..Len(hits) : ~(HitFields(model) \subseteq DOMAIN hits[i])
            THEN [exc |-> "ToolOutputParseError", typed |-> EmptyDict]
            ELSE [exc |-> "none",
                  typed |-> [query |-> payload.query,
                             results |-> [i \in 1..Len(hits) |->
                                 [k \in HitFields(model) |-> hits[i][k]]]]]

----------------------------------------------------------------------------
(* Summarizer (src/host/summarizer.py) *)

KeyOrder ==
    <<"doc_id", "ticket_id", "policy_id", "query", "title", "snippet", "content">>

RECURSIVE DumpKeys(_, _)
DumpKeys(d, keys) ==
    IF keys = <<>> THEN <<>>
    ELSE (IF Head(keys) \in DOMAIN d THEN <<Head(keys)>> \o d[Head(keys)] ELSE <<>>)
         \o DumpKeys(d, Tail(keys))

RECURSIVE DumpList(_)
DumpList(items) ==
    IF items = <<>> THEN <<>>
    ELSE DumpKeys(Head(items), KeyOrder) \o DumpList(Tail(items))

\* json.dumps(typed, ensure_ascii=False, indent=2)
json_dumps(typed) ==
    DumpKeys(typed, KeyOrder)
    \o (IF Has(typed, "results") THEN <<"results">> \o DumpList(typed.results) ELSE <<>>)

\* ev in source_text
IsSubstring(ev, text) ==
    \E i \in 0..(Len(text) - Len(ev)) : SubSeq(text, i + 1, i + Len(ev)) = ev

ItemOk(item, source_text) ==
    /\ Has(item, "claim") /\ Strip(item.claim) # <<>>
    /\ Has(item, "evidence") /\ Strip(item.evidence) # <<>>
    /\ IsSubstring(item.evidence, source_text)

SectionOk(summary, section, source_text) ==
    /\ Has(summary, section)
    /\ \A i \in 1..Len(summary[section]) : ItemOk(summary[section][i], source_text)

\* the verifier looking at the bullets only
validate_bullets_only(summary, source_text) ==
    IF /\ Has(summary, "type") /\ summary.type = "summary"
       /\ SectionOk(summary, "bullets", source_text)
    THEN [exc |-> "none"]
    ELSE [exc |-> "GroundingError"]

validate_grounded_summary(summary, source_text) ==
    IF /\ Has(summary, "type") /\ summary.type = "summary"
       /\ \A section \in {"bullets", "risks", "recommendations"} :
              SectionOk(summary, section, source_text)
    THEN [exc |-> "none"]
    ELSE [exc |-> "GroundingError"]

----------------------------------------------------------------------------
(* Graph nodes (src/graph/langgraph_agent.py).  A node yields the state it *)
(* leaves, the exception it lets escape ("none" when it returns), and the  *)
(* generator calls, host calls and tools/list requests it made.            *)

RawLimit == 400

LlmCall(stage, reply) == <<[stage |-> stage, reply |-> reply]>>

Ret(s) == [st |-> s, exc |-> "none", llm |-> <<>>, calls |-> <<>>, lists |-> <<>>]

Raise(s, e) == [st |-> s, exc |-> e, llm |-> <<>>, calls |-> <<>>, lists |-> <<>>]

Blocked(s, reason, output) ==
    Put(Put(Put(s, "blocked", TRUE), "reason", reason), "output", output)

\* the gate setting the flag and the reason but no output
gate_without_output(s) ==
    LET r == policy_check_user_query(s.user_query)
    IN IF ~r.ok
       THEN Ret(Put(Put(s, "blocked", TRUE), "reason", r.reason))
       ELSE Ret(s)

node_policy_gate(s) ==
    LET r == policy_check_user_query(s.user_query)
    IN IF ~r.ok
       THEN Ret(Blocked(s, r.reason, [type |-> "blocked", reason |-> r.reason]))
       ELSE Ret(s)

SetOfSeq(seq) == {seq[i] : i \in 1..Len(seq)}

\* a fixed order in which the host's sessions dict is iterated
SessionOrder == <<"mcp-sharepoint", "mcp-servicenow", "mcp-policy-kb">>

node_discover_tools(s, outcomes) ==
    LET tools_payload == tools_all(outcomes)
        ok == {srv \in DOMAIN tools_payload : Has(tools_payload[srv], "result")}
        ok_tools == [srv \in ok |-> tools_payload[srv]]
        allowlist == [srv \in ok |->
            {ToolsOf(ok_tools[srv])[i].name :
                i \in {j \in 1..Len(ToolsOf(ok_tools[srv])) :
                          Has(ToolsOf(ok_tools[srv])[j], "name")}}]
        built == build_tool_catalog(ok_tools)
    IN IF built.exc # "none"
       THEN [Raise(s, built.exc) EXCEPT !.lists = SessionOrder]
       ELSE [Ret(Put(Put(Put(s, "tools_payload", ok_tools),
                         "allowlist", allowlist),
                     "catalog_dict", built.catalog))
             EXCEPT !.lists = SessionOrder]

node_plan(s, reply) ==
    IF Truthy(s, "blocked") THEN Ret(s)
    ELSE LET forced == _deterministic_plan_from_ids(s.user_query)
         IN IF forced # NoPlan
            THEN Ret(Put(Put(s, "raw_plan", [forced |-> TRUE, plan |-> forced]),
                         "plan", forced))
            ELSE LET got == chat_json(reply)
                     s1 == Put(s, "raw_plan", got.value)
                     parsed == parse_strict_json_plan(got.value)
                     reason == "Planner output rejected"
                 IN IF got.exc # "none"
                    THEN [Raise(s, got.exc) EXCEPT !.llm = LlmCall("plan", reply)]
                    ELSE IF parsed.exc # "none"
                    THEN [Ret(Blocked(s1, reason,
                                [type |-> "blocked", reason |-> reason,
                                 raw |-> SubSeq(got.value.repr, 1,
                                    IF Len(got.value.repr) < RawLimit
                                    THEN Len(got.value.repr) ELSE RawLimit)]))
                          EXCEPT !.llm = LlmCall("plan", reply)]
                    ELSE [Ret(Put(s1, "plan", parsed.plan)) EXCEPT !.llm = LlmCall("plan", reply)]

\* the node checking only the plan's shape, not the catalog or the allowlist
validate_shape_only(s) ==
    IF Truthy(s, "blocked") THEN Ret(s)
    ELSE LET plan == s.plan
             r1 == "Plan validation failed"
         IN IF ~(Has(plan, "type") /\ plan.type = "call_tool")
            THEN Ret(Blocked(s, r1, [type |-> "blocked", reason |-> r1, plan |-> plan]))
            ELSE Ret(Put(Put(Put(s, "server", plan.server), "tool", plan.tool),
                         "args", plan.args))

\* the node leaving the plan out of the blocked output
validate_reports_no_plan(s) ==
    IF Truthy(s, "blocked") THEN Ret(s)
    ELSE LET plan == s.plan
             checked == validate_plan(plan, s.catalog_dict)
             r1 == "Plan validation failed"
             r2 == "Tool not allowed"
         IN IF checked.exc # "none"
            THEN Ret(Blocked(s, r1, [type |-> "blocked", reason |-> r1]))
            ELSE IF enforce_tool_allowlist(plan.server, plan.tool, s.allowlist).exc # "none"
            THEN Ret(Blocked(s, r2, [type |-> "blocked", reason |-> r2]))
            ELSE Ret(Put(Put(Put(s, "server", plan.server), "tool", plan.tool),
                         "args", plan.args))

node_validate_and_select(s) ==
    IF Truthy(s, "blocked") THEN Ret(s)
    ELSE LET plan == s.plan
             checked == validate_plan(plan, s.catalog_dict)
             r1 == "Plan validation failed"
             r2 == "Tool not allowed"
         IN IF checked.exc # "none"
            THEN Ret(Blocked(s, r1, [type |-> "blocked", reason |-> r1, plan |-> plan]))
            ELSE IF enforce_tool_allowlist(plan.server, plan.tool, s.allowlist).exc # "none"
            THEN Ret(Blocked(s, r2, [type |-> "blocked", reason |-> r2, plan |-> plan]))
            ELSE Ret(Put(Put(Put(s, "server", plan.server), "tool", plan.tool),
                         "args", plan.args))

\* the node treating a decode failure as a block
call_tool_blocks_on_decode_failure(s, outcome) ==
    IF Truthy(s, "blocked") THEN Ret(s)
    ELSE LET got == call(s.server, s.tool, s.args, outcome)
             raw == got.resp
             s1 == Put(s, "raw_tool_result", raw)
             parsed == parse_typed_tool_output(s.server, s.tool, raw)
             invoked == <<[server |-> s.server, tool |-> s.tool]>>
             why == "Typed parsing blocked"
         IN IF got.exc # "none"
            THEN [Raise(s, got.exc) EXCEPT !.calls = invoked]
            ELSE IF parsed.exc # "none"
            THEN [Ret(Blocked(s1, why, [type |-> "blocked", reason |-> why]))
                  EXCEPT !.calls = invoked]
            ELSE [Ret(Put(Put(s1, "typed", parsed.typed), "output",
                        [type |-> "tool_result", plan |-> s.plan,
                         typed |-> parsed.typed, raw |-> raw]))
                  EXCEPT !.calls = invoked]

\* the node invoking a second time when the first invocation raised
call_tool_with_retry(s, outcome) ==
    IF Truthy(s, "blocked") THEN Ret(s)
    ELSE LET got == call(s.server, s.tool, s.args, outcome)
             raw == got.resp
             s1 == Put(s, "raw_tool_result", raw)
             parsed == parse_typed_tool_output(s.server, s.tool, raw)
             invoked == <<[server |-> s.server, tool |-> s.tool]>>
         IN IF got.exc # "none"
            THEN [Raise(s, got.exc) EXCEPT !.calls = invoked \o invoked]
            ELSE IF parsed.exc # "none"
            THEN [Ret(Put(s1, "output",
                        [type |-> "tool_result", plan |-> s.plan,
                         note |-> "Typed parsing blocked", raw |-> raw]))
                  EXCEPT !.calls = invoked]
            ELSE [Ret(Put(Put(s1, "typed", parsed.typed), "output",
                        [type |-> "tool_result", plan |-> s.plan,
                         typed |-> parsed.typed, raw |-> raw]))
                  EXCEPT !.calls = invoked]

node_call_tool(s, outcome) ==
    IF Truthy(s, "blocked") THEN Ret(s)
    ELSE LET got == call(s.server, s.tool, s.args, outcome)
             raw == got.resp
             s1 == Put(s, "raw_tool_result", raw)
             parsed == parse_typed_tool_output(s.server, s.tool, raw)
             invoked == <<[server |-> s.server, tool |-> s.tool]>>
         IN IF got.exc # "none"
            THEN [Raise(s, got.exc) EXCEPT !.calls = invoked]
            ELSE IF parsed.exc # "none"
            THEN [Ret(Put(s1, "output",
                        [type |-> "tool_result", plan |-> s.plan,
                         note |-> "Typed parsing blocked", raw |-> raw]))
                  EXCEPT !.calls = invoked]
            ELSE [Ret(Put(Put(s1, "typed", parsed.typed), "output",
                        [type |-> "tool_result", plan |-> s.plan,
                         typed |-> parsed.typed, raw |-> raw]))
                  EXCEPT !.calls = invoked]

\* the NOT_FOUND heuristic switched off
never_not_found(typed) == FALSE

\* typed.get("content") == "NOT_FOUND"
IsNotFound(typed) == Has(typed, "content") /\ typed.content = NotFoundText

\* the search heuristic switched off
never_search_tool(tool) == FALSE

IsSearchTool(tool) ==
    tool \in {"search_sharepoint", "search_servicenow_tickets", "search_policies"}

Output(s) == IF Has(s, "output") THEN s.output ELSE EmptyDict

node_grounded_summarize(s, reply) ==
    IF Truthy(s, "blocked") THEN Ret(s)
    ELSE LET wants == _wants_summary(s.user_query)
             enabled == _summarize_enabled
         IN IF ~(enabled \/ wants) THEN Ret(s)
            ELSE IF ~(Has(s, "typed") /\ s.typed # EmptyDict) THEN Ret(s)
            ELSE IF IsNotFound(s.typed)
            THEN Ret(Put(s, "output",
                    Put(Output(s), "note", "Summary skipped: content is NOT_FOUND.")))
            ELSE IF IsSearchTool(s.tool) /\ ~wants
            THEN Ret(Put(s, "output",
                    Put(Output(s), "note", "Summary skipped: search results")))
            ELSE LET source_text == json_dumps(s.typed)
                     got == chat_json(reply)
                     parsed == parse_strict_json_plan(got.value)
                     noted == Put(s, "output",
                                Put(Output(s), "note", "Summary blocked (grounding failed)"))
                 IN IF got.exc # "none"
                    THEN [Raise(s, got.exc) EXCEPT !.llm = LlmCall("summarize", reply)]
                    ELSE IF parsed.exc # "none"
                    THEN [Ret(noted) EXCEPT !.llm = LlmCall("summarize", reply)]
                    ELSE IF validate_grounded_summary(parsed.plan, source_text).exc # "none"
                    THEN [Ret(noted) EXCEPT !.llm = LlmCall("summarize", reply)]
                    ELSE [Ret(Put(Put(s, "summary", parsed.plan), "output",
                                Put(Put(Output(s), "type", "tool_result_with_summary"),
                                    "summary", parsed.plan)))
                          EXCEPT !.llm = LlmCall("summarize", reply)]

----------------------------------------------------------------------------
(* Routers and graph *)

\* the policy router ignoring the blocked flag
route_after_policy_always_on(s) == "discover_tools"

route_after_policy(s) == IF Truthy(s, "blocked") THEN "END" ELSE "discover_tools"

route_after_plan(s) == IF Truthy(s, "blocked") THEN "END" ELSE "validate_and_select"

route_after_validate(s) == IF Truthy(s, "blocked") THEN "END" ELSE "call_tool"

\* the graph with an edge from grounded_summarize back to plan
graph_with_replan(node, s) ==
    CASE node = "policy_gate" -> route_after_policy(s)
      [] node = "discover_tools" -> "plan"
      [] node = "plan" -> route_after_plan(s)
      [] node = "validate_and_select" -> route_after_validate(s)
      [] node = "call_tool" -> "grounded_summarize"
      [] node = "grounded_summarize" -> "plan"

\* build_graph: the node that follows `node` when it leaves state s
build_graph(node, s) ==
    CASE node = "policy_gate" -> route_after_policy(s)
      [] node = "discover_tools" -> "plan"
      [] node = "plan" -> route_after_plan(s)
      [] node = "validate_and_select" -> route_after_validate(s)
      [] node = "call_tool" -> "grounded_summarize"
      [] node = "grounded_summarize" -> "END"

----------------------------------------------------------------------------
(* MCPSSESession and MultiMCPHost, step by step *)

\* main() configures three servers
NumSessions == 3

\* the servers dict handed to MultiMCPHost
Configured == {SessionOrder[k] : k \in 1..NumSessions}

\* _now_ms(): the wall clock, truncated to the tick
_now_ms(now) == now

\* the id member of a received message: a JSON integer, a number with a
\* fractional part (n + 0.5), or null
IntId(n) == [t |-> "int", n |-> n]

FracId(n) == [t |-> "frac", n |-> n]

NullId == [t |-> "null", n |-> 0]

\* Python int(x): integers unchanged, numeric strings parsed, fractions
\* truncated, None raises TypeError
int(idv) ==
    CASE idv.t = "int" -> [exc |-> "none", n |-> idv.n]
      [] idv.t = "str" -> [exc |-> "none", n |-> idv.n]
      [] idv.t = "frac" -> [exc |-> "none", n |-> idv.n]
      [] OTHER -> [exc |-> "TypeError", n |-> 0]

\* MCPSSESession.__init__
NewSession ==
    [messages_url |-> "None", reader |-> "unstarted",
     _inbox |-> EmptyDict, _errors |-> <<>>]

Pop(d, k) == [x \in (DOMAIN d) \ {k} |-> d[x]]

\* connect.on_event, run on the reader thread: __error__ is appended to
\* _errors, endpoint sets messages_url, a message that parses to an object
\* with an id is stored under int(id); anything else is dropped
on_event(sess, ev) ==
    IF ev.event = "__error__"
    THEN [sess EXCEPT !._errors = Append(@, ev.data)]
    ELSE IF ev.event = "endpoint"
    THEN [sess EXCEPT !.messages_url = ev.data]
    ELSE IF ev.event = "message" /\ ev.data.json /\ Has(ev.data.msg, "id")
            /\ int(ev.data.msg.id).exc = "none"
    THEN [sess EXCEPT !._inbox = Put(@, int(ev.data.msg.id).n, ev.data.msg)]
    ELSE sess

Message(msg) == [event |-> "message", data |-> [json |-> TRUE, msg |-> msg]]

\* the loop never gives up
never_expired(deadline, now) == FALSE

\* while time.time() < deadline: the loop condition has become false
Expired(deadline, now) == ~(now < deadline)

Waiting(sess) == [done |-> FALSE, exc |-> "none", resp |-> EmptyDict, sess |-> sess]

\* MCPSSESession.rpc: the id is the clock reading; a POST answered with
\* anything but 200/202 raises
PostStatuses == {202, 500}

rpc(sess, method, status, now) ==
    IF sess.messages_url = "None"
    THEN [exc |-> "MCPProtocolError", posted |-> FALSE, rid |-> 0]
    ELSE IF status \notin {200, 202}
    THEN [exc |-> "MCPProtocolError", posted |-> TRUE, rid |-> _now_ms(now)]
    ELSE [exc |-> "none", posted |-> TRUE, rid |-> _now_ms(now)]

\* the wait hands out whatever entry the table holds
wait_for_any(sess, rpc_id, deadline, now) ==
    IF Expired(deadline, now)
    THEN [done |-> TRUE, exc |-> "TimeoutError", resp |-> EmptyDict, sess |-> sess]
    ELSE IF DOMAIN sess._inbox # {}
    THEN LET k == CHOOSE x \in DOMAIN sess._inbox : TRUE
         IN [done |-> TRUE, exc |-> "none", resp |-> sess._inbox[k],
             sess |-> [sess EXCEPT !._inbox = Pop(@, k)]]
    ELSE IF sess._errors # <<>>
    THEN [done |-> TRUE, exc |-> "MCPProtocolError", resp |-> EmptyDict, sess |-> sess]
    ELSE Waiting(sess)

\* MCPSSESession.wait_for_id, one pass of the loop: past the deadline it
\* raises TimeoutError; under the lock it pops and returns the entry of
\* rpc_id, else raises on a recorded reader error, else sleeps
wait_for_id(sess, rpc_id, deadline, now) ==
    IF Expired(deadline, now)
    THEN [done |-> TRUE, exc |-> "TimeoutError", resp |-> EmptyDict, sess |-> sess]
    ELSE IF rpc_id \in DOMAIN sess._inbox
    THEN [done |-> TRUE, exc |-> "none", resp |-> sess._inbox[rpc_id],
          sess |-> [sess EXCEPT !._inbox = Pop(@, rpc_id)]]
    ELSE IF sess._errors # <<>>
    THEN [done |-> TRUE, exc |-> "MCPProtocolError", resp |-> EmptyDict, sess |-> sess]
    ELSE Waiting(sess)

\* the calling thread before connect_all
HostInit ==
    /\ clock = 0
    /\ host = [pc |-> "connect", i |-> 1, rid |-> 0, deadline |-> 0, exc |-> "none"]
    /\ sessions = [name \in Configured |-> NewSession]
    /\ sent = [name \in Configured |-> <<>>]
    /\ answered = [name \in Configured |-> {}]
    /\ strays = 0
    /\ waits = <<>>
    /\ attempted = <<>>
    /\ lock = "free"
    /\ readerAt = [pc |-> "idle"]
    /\ accesses = {}

----------------------------------------------------------------------------
(* run_once *)

Pending == [type |-> "<pending>"]

Init ==
    /\ \E q \in Queries : state = [user_query |-> q]
    /\ env \in {[SAFE_SUMMARIZE |-> "0"], [SAFE_SUMMARIZE |-> "1"]}
    /\ pc = "policy_gate"
    /\ visited = <<>>
    /\ listReqs = <<>>
    /\ llmCalls = <<>>
    /\ hostCalls = <<>>
    /\ discovery = EmptyDict
    /\ result = Pending
    /\ HostInit

\* one node of app.invoke: the node runs, then the graph picks the next node;
\* an exception leaves app.invoke and run_once
Run(node, eff) ==
    /\ visited' = Append(visited, node)
    /\ llmCalls' = llmCalls \o eff.llm
    /\ hostCalls' = hostCalls \o eff.calls
    /\ listReqs' = listReqs \o eff.lists
    /\ state' = eff.st
    /\ IF eff.exc = "none"
       THEN pc' = build_graph(node, eff.st) /\ result' = result
       ELSE pc' = "raised" /\ result' = [type |-> "<unhandled exception>", exc |-> eff.exc]
    /\ UNCHANGED env
    /\ UNCHANGED hostVars
    /\ UNCHANGED lockVars

PolicyGate ==
    /\ pc = "policy_gate"
    /\ Run("policy_gate", node_policy_gate(state))
    /\ UNCHANGED discovery

Discover ==
    /\ pc = "discover_tools"
    /\ \E outcomes \in [Sessions -> UNION {ListOutcomes(srv) : srv \in Sessions}] :
          /\ \A srv \in Sessions : outcomes[srv] \in ListOutcomes(srv)
          /\ Run("discover_tools", node_discover_tools(state, outcomes))
          /\ discovery' = tools_all(outcomes)

PlanStep ==
    /\ pc = "plan"
    /\ \E reply \in PlannerReplies : Run("plan", node_plan(state, reply))
    /\ UNCHANGED discovery

ValidateAndSelect ==
    /\ pc = "validate_and_select"
    /\ Run("validate_and_select", node_validate_and_select(state))
    /\ UNCHANGED discovery

CallTool ==
    /\ pc = "call_tool"
    /\ \E outcome \in CallOutcomes(IF Has(state, "server") /\ state.server \in Servers
                                   THEN state.server ELSE "mcp-policy-kb") :
          Run("call_tool", node_call_tool(state, outcome))
    /\ UNCHANGED discovery

GroundedSummarize ==
    /\ pc = "grounded_summarize"
    /\ \E reply \in SummarizerReplies :
          Run("grounded_summarize", node_grounded_summarize(state, reply))
    /\ UNCHANGED discovery

\* run_once: return final_state.get("output", {"type": "error", ...})
Return ==
    /\ pc = "END"
    /\ pc' = "returned"
    /\ result' = IF Has(state, "output") THEN state.output
                 ELSE [type |-> "error", reason |-> "no output"]
    /\ UNCHANGED <<state, env, visited, listReqs, llmCalls, hostCalls, discovery>>
    /\ UNCHANGED hostVars
    /\ UNCHANGED lockVars

Next ==
    \/ PolicyGate
    \/ Discover
    \/ PlanStep
    \/ ValidateAndSelect
    \/ CallTool
    \/ GroundedSummarize
    \/ Return

Spec == Init /\ [][Next]_vars

----------------------------------------------------------------------------
(* One session's life on the calling thread -- connect(), then at most one  *)
(* command, list_tools() or call_tool(), then close() -- against its reader *)
(* thread, its server and the clock                                         *)

Cur == SessionOrder[host.i]

WaitStates == {"endpoint_wait", "init_wait", "list_wait", "call_wait"}

Goto(label) == [host EXCEPT !.pc = label]

\* a failed connect() is swallowed and the commands go ahead
throw_into_commands(exc) ==
    IF host.pc \in {"endpoint_wait", "initialize", "init_wait", "initialized"}
    THEN [host EXCEPT !.pc = "repl"]
    ELSE [host EXCEPT !.pc = "close", !.exc = exc]

\* an exception leaves main() through its finally: host.close()
Throw(exc) == [host EXCEPT !.pc = "close", !.exc = exc]

StartWait(label, rid, ticks) ==
    [host EXCEPT !.pc = label, !.rid = rid, !.deadline = clock + ticks]

Posted(name, method, r) ==
    IF r.posted
    THEN sent' = [sent EXCEPT ![name] = Append(@, [id |-> r.rid, method |-> method])]
    ELSE sent' = sent

\* connect() starts the reader and begins to wait for the endpoint event
ConnectStart ==
    /\ host.pc = "connect"
    /\ attempted' = Append(attempted, Cur)
    /\ sessions' = [sessions EXCEPT ![Cur].reader = "running"]
    /\ host' = StartWait("endpoint_wait", 0, TimeoutTicks)
    /\ UNCHANGED <<clock, sent, answered, strays, waits>>
    /\ UNCHANGED pipeVars
    /\ UNCHANGED lockVars

\* connect: the endpoint loop ends when messages_url is set or the deadline
\* has passed; without messages_url it raises TimeoutError
EndpointWait ==
    /\ host.pc = "endpoint_wait"
    /\ \/ /\ sessions[Cur].messages_url # "None"
          /\ host' = Goto("initialize")
       \/ /\ sessions[Cur].messages_url = "None"
          /\ Expired(host.deadline, clock)
          /\ host' = Throw("TimeoutError")
    /\ UNCHANGED <<clock, sessions, sent, answered, strays, waits, attempted>>
    /\ UNCHANGED pipeVars
    /\ UNCHANGED lockVars

\* initialize_handshake: rpc("initialize")
Initialize ==
    /\ host.pc = "initialize"
    /\ \E status \in PostStatuses :
          LET r == rpc(sessions[Cur], "initialize", status, clock)
          IN /\ Posted(Cur, "initialize", r)
             /\ host' = IF r.exc # "none" THEN Throw(r.exc)
                        ELSE StartWait("init_wait", r.rid, TimeoutTicks)
    /\ UNCHANGED <<clock, sessions, answered, strays, waits, attempted>>
    /\ UNCHANGED pipeVars
    /\ UNCHANGED lockVars

\* what a finished wait_for_id leaves behind
Waited(w) ==
    /\ w.done
    /\ sessions' = [sessions EXCEPT ![Cur] = w.sess]
    /\ waits' = IF w.exc = "none"
                THEN <<[server |-> Cur, rpc_id |-> host.rid, resp |-> w.resp]>>
                ELSE <<>>

\* initialize_handshake: wait_for_id(init_id, 10); an error response raises
InitWait ==
    /\ host.pc = "init_wait"
    /\ LET w == wait_for_id(sessions[Cur], host.rid, host.deadline, clock)
       IN /\ Waited(w)
          /\ host' = IF w.exc # "none" THEN Throw(w.exc)
                     ELSE IF Has(w.resp, "error") THEN Throw("MCPProtocolError")
                     ELSE Goto("initialized")
    /\ UNCHANGED <<clock, sent, answered, strays, attempted>>
    /\ UNCHANGED pipeVars
    /\ UNCHANGED lockVars

\* initialize_handshake: rpc("notifications/initialized"), not waited for
Initialized ==
    /\ host.pc = "initialized"
    /\ \E status \in PostStatuses :
          LET r == rpc(sessions[Cur], "notifications/initialized", status, clock)
          IN /\ Posted(Cur, "notifications/initialized", r)
             /\ host' = IF r.exc # "none" THEN Throw(r.exc) ELSE Goto("repl")
    /\ UNCHANGED <<clock, sessions, answered, strays, waits, attempted>>
    /\ UNCHANGED pipeVars
    /\ UNCHANGED lockVars

\* list_tools under tools_all: rpc("tools/list"); tools_all turns an
\* exception into an {"error": ...} entry and goes on
ListTools ==
    /\ host.pc = "repl"
    /\ \E status \in PostStatuses :
          LET r == rpc(sessions[Cur], "tools/list", status, clock)
          IN /\ Posted(Cur, "tools/list", r)
             /\ host' = IF r.exc # "none" THEN Goto("close")
                        ELSE StartWait("list_wait", r.rid, TimeoutTicks)
    /\ UNCHANGED <<clock, sessions, answered, strays, waits, attempted>>
    /\ UNCHANGED pipeVars
    /\ UNCHANGED lockVars

\* list_tools under tools_all: wait_for_id(rid, 10)
ListWait ==
    /\ host.pc = "list_wait"
    /\ LET w == wait_for_id(sessions[Cur], host.rid, host.deadline, clock)
       IN /\ Waited(w)
          /\ host' = Goto("close")
    /\ UNCHANGED <<clock, sent, answered, strays, attempted>>
    /\ UNCHANGED pipeVars
    /\ UNCHANGED lockVars

\* call_tool: rpc("tools/call")
HostCall ==
    /\ host.pc = "repl"
    /\ \E status \in PostStatuses :
          LET r == rpc(sessions[Cur], "tools/call", status, clock)
          IN /\ Posted(Cur, "tools/call", r)
             /\ host' = IF r.exc # "none" THEN Throw(r.exc)
                        ELSE StartWait("call_wait", r.rid, 2 * TimeoutTicks)
    /\ UNCHANGED <<clock, sessions, answered, strays, waits, attempted>>
    /\ UNCHANGED pipeVars
    /\ UNCHANGED lockVars

\* call_tool: wait_for_id(rid, 20), a single attempt
CallWait ==
    /\ host.pc = "call_wait"
    /\ LET w == wait_for_id(sessions[Cur], host.rid, host.deadline, clock)
       IN /\ Waited(w)
          /\ host' = IF w.exc # "none" THEN Throw(w.exc) ELSE Goto("close")
    /\ UNCHANGED <<clock, sent, answered, strays, attempted>>
    /\ UNCHANGED pipeVars
    /\ UNCHANGED lockVars

\* main: no call is made
HostQuit ==
    /\ host.pc = "repl"
    /\ host' = Goto("close")
    /\ UNCHANGED <<clock, sessions, sent, answered, strays, waits, attempted>>
    /\ UNCHANGED pipeVars
    /\ UNCHANGED lockVars

\* SSEReader.stop(): the reader ends at its next line without a word
Stopped(sess) ==
    IF sess.reader = "running" THEN [sess EXCEPT !.reader = "stopped"] ELSE sess

\* MCPSSESession.close() on the calling thread
HostClose ==
    /\ host.pc = "close"
    /\ sessions' = [sessions EXCEPT ![Cur] = Stopped(@)]
    /\ host' = Goto("done")
    /\ UNCHANGED <<clock, sent, answered, strays, waits, attempted>>
    /\ UNCHANGED pipeVars
    /\ UNCHANGED lockVars

\* the reader thread dispatches an event to the callback; what it does once
\* the calling thread has left for close() is seen by nobody
Dispatch(name, ev) ==
    /\ host.pc \notin {"close", "done"}
    /\ sessions[name].reader = "running"
    /\ sessions' = [sessions EXCEPT ![name] = on_event(@, ev)]

\* the server announces the address requests are POSTed to
Endpoint(name) ==
    /\ sessions[name].messages_url = "None"
    /\ Dispatch(name, [event |-> "endpoint", data |-> "url"])
    /\ UNCHANGED <<clock, host, sent, answered, strays, waits, attempted>>
    /\ UNCHANGED pipeVars
    /\ UNCHANGED lockVars

\* a server's answers to a request: a result, or an error where the method
\* can fail or is unknown to it
Answers(req) ==
    IF req.method = "notifications/initialized"
    THEN {[id |-> IntId(req.id), error |-> req.method]}
    ELSE IF req.method = "initialize"
    THEN {[id |-> IntId(req.id), result |-> req.method],
          [id |-> IntId(req.id), error |-> req.method]}
    ELSE {[id |-> IntId(req.id), result |-> req.method]}

\* the server answers one of the requests it has not answered yet, in any
\* order, with a result or an error
Deliver(name) ==
    /\ \E k \in (1..Len(sent[name])) \ answered[name] :
          /\ \E msg \in Answers(sent[name][k]) : Dispatch(name, Message(msg))
          /\ answered' = [answered EXCEPT ![name] = @ \cup {k}]
    /\ UNCHANGED <<clock, host, sent, strays, waits, attempted>>
    /\ UNCHANGED pipeVars
    /\ UNCHANGED lockVars

SentIds(name) == {sent[name][k].id : k \in 1..Len(sent[name])}

\* messages nobody asked for: a request or response with an id of the
\* server's choosing, a notification, a line that is not JSON
StrayEvents(name) ==
    {Message([id |-> idv, result |-> "unsolicited"]) :
        idv \in {IntId(_now_ms(clock)), NullId}
                \cup {FracId(n) : n \in SentIds(name)}}
    \cup {Message([method |-> "notifications/message"]),
          [event |-> "message", data |-> [json |-> FALSE]]}

Stray(name) ==
    /\ strays < MaxStray
    /\ \E ev \in StrayEvents(name) : Dispatch(name, ev)
    /\ strays' = strays + 1
    /\ UNCHANGED <<clock, host, sent, answered, waits, attempted>>
    /\ UNCHANGED pipeVars
    /\ UNCHANGED lockVars

\* SSEReader.run: the stream breaks; the exception is reported as an
\* __error__ event and the thread ends
ReaderDies(name) ==
    /\ host.pc \notin {"close", "done"}
    /\ sessions[name].reader = "running"
    /\ sessions' = [sessions EXCEPT ![name] =
          [on_event(@, [event |-> "__error__", data |-> "stream error"])
           EXCEPT !.reader = "dead"]]
    /\ UNCHANGED <<clock, host, sent, answered, strays, waits, attempted>>
    /\ UNCHANGED pipeVars
    /\ UNCHANGED lockVars

\* MCPSSESession.close() from outside the calling thread while it waits on
\* that session: the reader stops silently, or its read of the closed
\* stream raises and is reported as an __error__ event
Close(name) ==
    /\ host.pc \in WaitStates
    /\ sessions[name].reader = "running"
    /\ \/ sessions' = [sessions EXCEPT ![name] = Stopped(@)]
       \/ sessions' = [sessions EXCEPT ![name] =
             [on_event(@, [event |-> "__error__", data |-> "stream closed"])
              EXCEPT !.reader = "dead"]]
    /\ UNCHANGED <<clock, host, sent, answered, strays, waits, attempted>>
    /\ UNCHANGED pipeVars
    /\ UNCHANGED lockVars

\* time passes
Tick ==
    /\ \/ clock < MaxClock /\ host.pc \notin {"close", "done"}
       \/ host.pc \in WaitStates /\ clock < host.deadline
    /\ clock' = clock + 1
    /\ UNCHANGED <<host, sessions, sent, answered, strays, waits, attempted>>
    /\ UNCHANGED pipeVars
    /\ UNCHANGED lockVars

HostStep ==
    \/ ConnectStart
    \/ EndpointWait
    \/ Initialize
    \/ InitWait
    \/ Initialized
    \/ ListTools
    \/ ListWait
    \/ HostCall
    \/ CallWait
    \/ HostQuit
    \/ HostClose

SessionInit ==
    /\ state = [user_query |-> <<"what">>]
    /\ env = [SAFE_SUMMARIZE |-> "0"]
    /\ pc = "policy_gate"
    /\ visited = <<>>
    /\ listReqs = <<>>
    /\ llmCalls = <<>>
    /\ hostCalls = <<>>
    /\ discovery = EmptyDict
    /\ result = Pending
    /\ HostInit

SessionNext ==
    \/ ConnectStart
    \/ EndpointWait
    \/ Initialize
    \/ InitWait
    \/ Initialized
    \/ ListTools
    \/ ListWait
    \/ HostCall
    \/ CallWait
    \/ HostQuit
    \/ HostClose
    \/ Tick
    \/ Endpoint(Cur)
    \/ Deliver(Cur)
    \/ Stray(Cur)
    \/ ReaderDies(Cur)
    \/ Close(Cur)

SessionSpec == SessionInit /\ [][SessionNext]_vars

\* the calling thread keeps running and the clock keeps advancing
FairSessionSpec == SessionSpec /\ WF_vars(HostStep) /\ WF_vars(Tick)

----------------------------------------------------------------------------
(* connect() of one session at the grain of its lock: every read and write  *)
(* of a field of the session by the calling thread and by the reader thread *)
(* is a step, and `with self._lock' is an acquire, a body and a release     *)

Threads == {"caller", "reader"}

\* one access to a field of the session, and whether the thread making it
\* holds _lock at that moment
Access(by, field, mode) ==
    [by |-> by, field |-> field, mode |-> mode, locked |-> lock = by]

Idle == [pc |-> "idle"]

\* connect: one pass of `while self.messages_url is None and time.time() <
\* deadline', then `if self.messages_url is None: raise TimeoutError'
PollEndpoint ==
    /\ host.pc = "endpoint_wait"
    /\ accesses' = accesses \cup {Access("caller", "messages_url", "read")}
    /\ host' = IF sessions[Cur].messages_url # "None" THEN Goto("initialize")
               ELSE IF Expired(host.deadline, clock) THEN Throw("TimeoutError")
               ELSE host
    /\ UNCHANGED <<clock, sessions, sent, answered, strays, waits, attempted>>
    /\ UNCHANGED <<lock, readerAt>>
    /\ UNCHANGED pipeVars

\* initialize_handshake: rpc("initialize") reads messages_url for its check
\* and for the POST
RpcInitialize ==
    /\ host.pc = "initialize"
    /\ accesses' = accesses \cup {Access("caller", "messages_url", "read")}
    /\ \E status \in PostStatuses :
          LET r == rpc(sessions[Cur], "initialize", status, clock)
          IN /\ Posted(Cur, "initialize", r)
             /\ host' = IF r.exc # "none" THEN Throw(r.exc)
                        ELSE StartWait("init_wait", r.rid, TimeoutTicks)
    /\ UNCHANGED <<clock, sessions, answered, strays, waits, attempted>>
    /\ UNCHANGED <<lock, readerAt>>
    /\ UNCHANGED pipeVars

\* wait_for_id: the loop condition is false, TimeoutError
WaitTimeout ==
    /\ host.pc = "init_wait"
    /\ Expired(host.deadline, clock)
    /\ host' = Throw("TimeoutError")
    /\ UNCHANGED <<clock, sessions, sent, answered, strays, waits, attempted>>
    /\ UNCHANGED lockVars
    /\ UNCHANGED pipeVars

\* wait_for_id: `with self._lock' is entered once the lock is free
WaitAcquire ==
    /\ host.pc = "init_wait"
    /\ ~Expired(host.deadline, clock)
    /\ lock = "free"
    /\ lock' = "caller"
    /\ host' = Goto("in_wait")
    /\ UNCHANGED <<clock, sessions, sent, answered, strays, waits, attempted>>
    /\ UNCHANGED <<readerAt, accesses>>
    /\ UNCHANGED pipeVars

\* wait_for_id, the body of `with self._lock': the entry of rpc_id is popped
\* and returned, else a recorded reader error raises, else nothing
under_lock(sess, rpc_id) ==
    IF rpc_id \in DOMAIN sess._inbox
    THEN [done |-> TRUE, exc |-> "none", resp |-> sess._inbox[rpc_id],
          sess |-> [sess EXCEPT !._inbox = Pop(@, rpc_id)]]
    ELSE IF sess._errors # <<>>
    THEN [done |-> TRUE, exc |-> "MCPProtocolError", resp |-> EmptyDict, sess |-> sess]
    ELSE Waiting(sess)

\* wait_for_id: the body runs and the lock is released; with nothing found
\* the caller sleeps and tries again
WaitLocked ==
    /\ host.pc = "in_wait"
    /\ LET w == under_lock(sessions[Cur], host.rid)
       IN /\ accesses' = accesses
                \cup {Access("caller", "_inbox", "read")}
                \cup (IF host.rid \in DOMAIN sessions[Cur]._inbox
                      THEN {Access("caller", "_inbox", "write")}
                      ELSE {Access("caller", "_errors", "read")})
          /\ IF w.done
             THEN /\ Waited(w)
                  /\ host' = IF w.exc # "none" THEN Throw(w.exc)
                             ELSE IF Has(w.resp, "error") THEN Throw("MCPProtocolError")
                             ELSE Goto("initialized")
             ELSE /\ host' = Goto("init_wait")
                  /\ UNCHANGED <<sessions, waits>>
    /\ lock' = "free"
    /\ UNCHANGED <<clock, sent, answered, strays, attempted>>
    /\ UNCHANGED readerAt
    /\ UNCHANGED pipeVars

\* initialize_handshake: rpc("notifications/initialized"); connect returns
RpcInitialized ==
    /\ host.pc = "initialized"
    /\ accesses' = accesses \cup {Access("caller", "messages_url", "read")}
    /\ \E status \in PostStatuses :
          LET r == rpc(sessions[Cur], "notifications/initialized", status, clock)
          IN /\ Posted(Cur, "notifications/initialized", r)
             /\ host' = IF r.exc # "none" THEN Throw(r.exc) ELSE Goto("close")
    /\ UNCHANGED <<clock, sessions, answered, strays, waits, attempted>>
    /\ UNCHANGED <<lock, readerAt>>
    /\ UNCHANGED pipeVars

\* SSEReader.run hands an event to on_event
Handing(ev) ==
    /\ host.pc \notin {"close", "done"}
    /\ sessions[Cur].reader = "running"
    /\ readerAt = Idle
    /\ readerAt' = [pc |-> "on_event", ev |-> ev]

\* SSEReader.run: the endpoint event arrives
ReaderGetsEndpoint ==
    /\ sessions[Cur].messages_url = "None"
    /\ Handing([event |-> "endpoint", data |-> "url"])
    /\ UNCHANGED <<lock, accesses>>
    /\ UNCHANGED hostVars
    /\ UNCHANGED pipeVars

\* SSEReader.run: the server's answer to a request arrives
ReaderGetsMessage ==
    /\ \E k \in (1..Len(sent[Cur])) \ answered[Cur] :
          /\ \E msg \in Answers(sent[Cur][k]) : Handing(Message(msg))
          /\ answered' = [answered EXCEPT ![Cur] = @ \cup {k}]
    /\ UNCHANGED <<lock, accesses>>
    /\ UNCHANGED <<clock, host, sessions, sent, strays, waits, attempted>>
    /\ UNCHANGED pipeVars

\* SSEReader.run: the stream breaks and the except clause reports __error__
ReaderFails ==
    /\ Handing([event |-> "__error__", data |-> "stream error"])
    /\ UNCHANGED <<lock, accesses>>
    /\ UNCHANGED hostVars
    /\ UNCHANGED pipeVars

\* on_event, endpoint: self.messages_url = ...
ReaderSetsUrl ==
    /\ readerAt # Idle
    /\ readerAt.pc = "on_event"
    /\ readerAt.ev.event = "endpoint"
    /\ sessions' = [sessions EXCEPT ![Cur] = on_event(@, readerAt.ev)]
    /\ accesses' = accesses \cup {Access("reader", "messages_url", "write")}
    /\ readerAt' = Idle
    /\ UNCHANGED <<clock, host, sent, answered, strays, waits, attempted>>
    /\ UNCHANGED lock
    /\ UNCHANGED pipeVars

\* on_event, __error__ and message: `with self._lock' is entered once the
\* lock is free
ReaderAcquire ==
    /\ readerAt # Idle
    /\ readerAt.pc = "on_event"
    /\ readerAt.ev.event \in {"__error__", "message"}
    /\ lock = "free"
    /\ lock' = "reader"
    /\ readerAt' = [readerAt EXCEPT !.pc = "locked"]
    /\ UNCHANGED accesses
    /\ UNCHANGED hostVars
    /\ UNCHANGED pipeVars

\* on_event: self._errors.append(ev.data) or self._inbox[rid] = msg, then
\* the lock is released; after __error__ the thread ends
ReaderStores ==
    /\ readerAt # Idle
    /\ readerAt.pc = "locked"
    /\ sessions' = [sessions EXCEPT ![Cur] =
          [on_event(@, readerAt.ev) EXCEPT
              !.reader = IF readerAt.ev.event = "__error__" THEN "dead" ELSE @]]
    /\ accesses' = accesses \cup
          {Access("reader",
                  IF readerAt.ev.event = "__error__" THEN "_errors" ELSE "_inbox",
                  "write")}
    /\ lock' = "free"
    /\ readerAt' = Idle
    /\ UNCHANGED <<clock, host, sent, answered, strays, waits, attempted>>
    /\ UNCHANGED pipeVars

LockNext ==
    \/ ConnectStart
    \/ PollEndpoint
    \/ RpcInitialize
    \/ WaitTimeout
    \/ WaitAcquire
    \/ WaitLocked
    \/ RpcInitialized
    \/ HostClose
    \/ Tick
    \/ ReaderGetsEndpoint
    \/ ReaderGetsMessage
    \/ ReaderFails
    \/ ReaderSetsUrl
    \/ ReaderAcquire
    \/ ReaderStores

LockSpec == SessionInit /\ [][LockNext]_vars

----------------------------------------------------------------------------
(* main(): connect_all, then run_once, finally host.close()                 *)

\* how one session's connect() can end: connected; no endpoint event within
\* 10 s; initialize not answered within 10 s; the POST refused, the reader
\* broken or initialize answered with an error
ConnectOutcomes ==
    { [exc |-> "none", sess |-> [NewSession EXCEPT !.reader = "running", !.messages_url = "url"]],
      [exc |-> "TimeoutError", sess |-> [NewSession EXCEPT !.reader = "running"]],
      [exc |-> "TimeoutError",
       sess |-> [NewSession EXCEPT !.reader = "running", !.messages_url = "url"]],
      [exc |-> "MCPProtocolError",
       sess |-> [NewSession EXCEPT !.reader = "dead", !.messages_url = "url",
                                   !._errors = <<"stream error">>]] }

MainInit ==
    /\ \E q \in Queries : state = [user_query |-> q]
    /\ env \in {[SAFE_SUMMARIZE |-> "0"], [SAFE_SUMMARIZE |-> "1"]}
    /\ pc = "connect_all"
    /\ visited = <<>>
    /\ listReqs = <<>>
    /\ llmCalls = <<>>
    /\ hostCalls = <<>>
    /\ discovery = EmptyDict
    /\ result = Pending
    /\ HostInit

\* MultiMCPHost.connect_all, one turn of its loop: sess.connect() on the
\* next session; an exception from connect() leaves the loop and main's try
connect_all ==
    /\ pc = "connect_all"
    /\ \E o \in ConnectOutcomes :
          /\ attempted' = Append(attempted, Cur)
          /\ sessions' = [sessions EXCEPT ![Cur] = o.sess]
          /\ IF o.exc # "none"
             THEN /\ pc' = "raised"
                  /\ result' = [type |-> "<unhandled exception>", exc |-> o.exc]
                  /\ host' = Throw(o.exc)
             ELSE /\ result' = result
                  /\ IF host.i < NumSessions
                     THEN pc' = pc /\ host' = [host EXCEPT !.i = host.i + 1]
                     ELSE pc' = "policy_gate" /\ host' = Goto("connected")
    /\ UNCHANGED <<state, env, visited, listReqs, llmCalls, hostCalls, discovery>>
    /\ UNCHANGED <<clock, sent, answered, strays, waits>>
    /\ UNCHANGED lockVars

\* main's finally: MultiMCPHost.close() closes every session
close ==
    /\ pc \in {"returned", "raised"}
    /\ host.pc # "done"
    /\ sessions' = [name \in Configured |-> Stopped(sessions[name])]
    /\ host' = Goto("done")
    /\ UNCHANGED <<clock, sent, answered, strays, waits, attempted>>
    /\ UNCHANGED pipeVars
    /\ UNCHANGED lockVars

MainNext ==
    \/ connect_all
    \/ PolicyGate
    \/ Discover
    \/ PlanStep
    \/ ValidateAndSelect
    \/ CallTool
    \/ GroundedSummarize
    \/ Return
    \/ close

MainSpec == MainInit /\ [][MainNext]_vars

----------------------------------------------------------------------------
(* Properties *)

Last(seq) == seq[Len(seq)]

Ran(node) == node \in SetOfSeq(visited)

Ended == pc \in {"END", "returned"}

EndedBlocked == Ended /\ Truthy(state, "blocked")

Stages(calls) == [i \in 1..Len(calls) |-> calls[i].stage]

GateRejects == ~policy_check_user_query(state.user_query).ok

\* C1: when the safety gate rejects the query the run ends with the output
\* {type: "blocked", reason: <gate reason>}, and no tools/list request, no
\* plan node (router or generator) and no host call happens in the run.
C1_GateBlockShortCircuits ==
    (GateRejects /\ visited # <<>>) =>
        /\ visited = <<"policy_gate">>
        /\ Ended
        /\ listReqs = <<>> /\ llmCalls = <<>> /\ hostCalls = <<>>
        /\ Has(state, "output")
        /\ state.output = [type |-> "blocked",
                           reason |-> policy_check_user_query(state.user_query).reason]
        /\ (pc = "returned" => result = state.output)

C1_Witness ==
    GateRejects /\ HasIdentifier(state.user_query) /\ pc = "returned"

\* C2: every host call names a tool of the allowlist entry of its server as
\* built by this run's discovery, and a server whose tools/list answer
\* carried a result.
C2_CallsAreAllowlisted ==
    \A i \in 1..Len(hostCalls) :
        /\ Has(state, "allowlist")
        /\ hostCalls[i].server \in DOMAIN state.allowlist
        /\ hostCalls[i].tool \in state.allowlist[hostCalls[i].server]
        /\ hostCalls[i].server \in DOMAIN discovery
        /\ Has(discovery[hostCalls[i].server], "result")

C2_Witness ==
    /\ hostCalls # <<>>
    /\ \E srv \in DOMAIN discovery : ~Has(discovery[srv], "result")
    /\ llmCalls # <<>>

\* C3 as stated: a query with a recognized identifier makes no generator
\* call in the whole run.
C3_NoGeneratorCallAtAll ==
    HasIdentifier(state.user_query) => llmCalls = <<>>

\* C3 amended: a query with a recognized identifier makes no generator call
\* for planning; the plan is the router's, and the only generator call such
\* a run can make is the single one of the summarize node.
C3_NoPlanningGeneratorCall ==
    HasIdentifier(state.user_query) =>
        /\ \A i \in 1..Len(llmCalls) : llmCalls[i].stage # "plan"
        /\ (Ran("plan") =>
              /\ Has(state, "plan")
              /\ state.plan = _deterministic_plan_from_ids(state.user_query)
              /\ state.raw_plan = [forced |-> TRUE, plan |-> state.plan])

C3_Witness ==
    /\ HasIdentifier(state.user_query)
    /\ Ran("plan")
    /\ Stages(llmCalls) = <<"summarize">>
    /\ pc = "returned"

RouterPlan == _deterministic_plan_from_ids(state.user_query)

ToolNames(tools) == {tools[i].name : i \in 1..Len(tools)}

\* the router's server answered tools/list with the tools it really exposes
RouterServerDiscovered ==
    /\ RouterPlan.server \in DOMAIN discovery
    /\ discovery[RouterPlan.server] =
          [result |-> [tools |-> ServerTools(RouterPlan.server)]]

\* C4: for each identifier family the router's plan names a tool the named
\* server exposes and the typed registry knows, so that once that server's
\* discovery succeeded the plan passes validate_and_select and the run goes
\* on to call_tool instead of ending blocked.
C4_RouterPlanReachesCall ==
    (RouterPlan # NoPlan /\ RouterServerDiscovered /\ Ran("validate_and_select")) =>
        /\ RouterPlan.tool \in ToolNames(ServerTools(RouterPlan.server))
        /\ <<RouterPlan.server, RouterPlan.tool>> \in DOMAIN TOOL_OUTPUT_MODELS
        /\ ~Truthy(state, "blocked")
        /\ (pc = "call_tool" \/ Ran("call_tool"))

PlanNotInCatalog ==
    /\ Has(state, "plan") /\ Has(state, "catalog_dict")
    /\ Has(state.plan, "type") /\ state.plan.type = "call_tool"
    /\ \/ state.plan.server \notin DOMAIN state.catalog_dict
       \/ state.plan.tool \notin CatalogNames(state.catalog_dict, state.plan.server)

\* C5: an Invoke plan whose server is not in the catalog, or whose tool is
\* not listed under that server, fails validation: the run ends blocked,
\* its output is {type: "blocked", reason, plan}, and no host call is made.
C5_UnknownCapabilityBlocks ==
    (PlanNotInCatalog /\ Ran("validate_and_select")) =>
        /\ Last(visited) = "validate_and_select"
        /\ EndedBlocked
        /\ hostCalls = <<>>
        /\ DOMAIN state.output = {"type", "reason", "plan"}
        /\ state.output.type = "blocked"
        /\ state.output.reason = state.reason
        /\ state.output.plan = state.plan
        /\ (pc = "returned" => result = state.output)

C5_Witness ==
    /\ PlanNotInCatalog
    /\ state.plan.server \in DOMAIN state.catalog_dict
    /\ llmCalls # <<>>
    /\ pc = "returned"

\* C6: a final_answer plan takes the run from plan straight to the end with
\* the answer as the output: it is not blocked, and neither
\* validate_and_select nor call_tool runs.
C6_FinalAnswerEndsDone ==
    (Has(state, "plan") /\ Has(state.plan, "type") /\ state.plan.type = "final_answer") =>
        /\ ~Truthy(state, "blocked")
        /\ ~Ran("validate_and_select")
        /\ ~Ran("call_tool")
        /\ Ended
        /\ (pc = "returned" => Has(result, "answer") /\ result.answer = state.plan.answer)

\* the planning reply was JSON neither directly nor by extraction
PlanReplyNotJson ==
    /\ ~HasIdentifier(state.user_query)
    /\ \E i \in 1..Len(llmCalls) :
          /\ llmCalls[i].stage = "plan"
          /\ llmCalls[i].reply.exc = "none"
          /\ chat_json(llmCalls[i].reply).exc = "JSONDecodeError"

\* C7: when no identifier matches and the generator's planning reply is not
\* parseable as JSON, the run ends blocked with {type: "blocked", reason,
\* raw} where raw is the reply cut to 400 characters; it does not end with
\* an unhandled failure, and no host call is made.
C7_NonJsonPlanBlocks ==
    PlanReplyNotJson =>
        /\ pc # "raised"
        /\ EndedBlocked
        /\ hostCalls = <<>>
        /\ DOMAIN state.output = {"type", "reason", "raw"}
        /\ state.output.type = "blocked"
        /\ Len(state.output.raw) <= RawLimit

StageOrder ==
    <<"policy_gate", "discover_tools", "plan", "validate_and_select",
      "call_tool", "grounded_summarize">>

\* C8: the nodes run in the fixed order policy_gate, discover_tools, plan,
\* validate_and_select, call_tool, grounded_summarize, each at most once,
\* and a run ends early (blocked) only right after policy_gate, plan or
\* validate_and_select.
C8_FixedStageOrder ==
    /\ Len(visited) <= Len(StageOrder)
    /\ \A i \in 1..Len(visited) : visited[i] = StageOrder[i]
    /\ (pc \in SetOfSeq(StageOrder) =>
          Len(visited) < Len(StageOrder) /\ pc = StageOrder[Len(visited) + 1])
    /\ (Ended /\ (Truthy(state, "blocked") \/ Len(visited) < Len(StageOrder))) =>
          /\ Truthy(state, "blocked")
          /\ Last(visited) \in {"policy_gate", "plan", "validate_and_select"}

C8_Witness ==
    /\ pc = "returned"
    /\ visited = StageOrder
    /\ Stages(llmCalls) = <<"plan", "summarize">>

\* C9: a run that ends blocked has an output of type "blocked" with a
\* reason and no tool result: no host call was made, and neither the state
\* nor the output holds a typed result, a raw tool result or a summary.
C9_BlockedHasNoToolResult ==
    EndedBlocked =>
        /\ Has(state, "output")
        /\ state.output.type = "blocked"
        /\ Has(state.output, "reason") /\ state.output.reason = state.reason
        /\ hostCalls = <<>>
        /\ ~Has(state, "raw_tool_result") /\ ~Has(state, "typed") /\ ~Has(state, "summary")
        /\ ~Has(state.output, "typed") /\ ~Has(state.output, "summary")
        /\ (Has(state.output, "raw") =>
               /\ state.reason = "Planner output rejected"
               /\ state.output.raw = state.raw_plan.repr)
        /\ (pc = "returned" => result = state.output)

C9_Witness ==
    /\ EndedBlocked
    /\ pc = "returned"
    /\ Has(result, "raw")

OutputTypes == {"blocked", "tool_result", "tool_result_with_summary", "error"}

\* C10: every run returns an output object whose type is one of blocked,
\* tool_result, tool_result_with_summary, error, also when a host call
\* times out or fails and when a generator call fails; no run ends without
\* such an output.
C10_EveryRunReturnsTypedOutput ==
    /\ pc # "raised"
    /\ (pc = "returned" => Has(result, "type") /\ result.type \in OutputTypes)

----------------------------------------------------------------------------
(* Summarization *)

SummarizeCalls == {i \in 1..Len(llmCalls) : llmCalls[i].stage = "summarize"}

PlanCalls == {i \in 1..Len(llmCalls) : llmCalls[i].stage = "plan"}

Sections == {"bullets", "risks", "recommendations"}

\* the evidence strings of a summary object
EvidenceOf(summary) ==
    UNION { {summary[sec][i].evidence : i \in 1..Len(summary[sec])} :
            sec \in Sections \cap DOMAIN summary }

\* the text the summarize node sends to the generator and grounds against
SourceText == json_dumps(state.typed)

\* the summary object of a summarizer reply, when the reply parses to one
ReplyIsObject(reply) ==
    reply.exc = "none" /\ chat_json(reply).exc = "none" /\ chat_json(reply).value.t = "dict"

ReplySummary(reply) == chat_json(reply).value.v

\* C11: grounding is all-or-nothing.  When the generated summary has an
\* evidence string that is not a substring of the source text, or is
\* otherwise malformed, the output keeps type "tool_result", has no summary
\* and has a note.  When the output has type "tool_result_with_summary",
\* every evidence string of its summary is a substring of the source text.
C11_GroundingAllOrNothing ==
    /\ \A i \in SummarizeCalls :
          (/\ ReplyIsObject(llmCalls[i].reply)
           /\ \/ ~(Has(ReplySummary(llmCalls[i].reply), "type")
                   /\ ReplySummary(llmCalls[i].reply).type = "summary")
              \/ ~(Sections \subseteq DOMAIN ReplySummary(llmCalls[i].reply))
              \/ \E ev \in EvidenceOf(ReplySummary(llmCalls[i].reply)) :
                    ~IsSubstring(ev, SourceText))
          => /\ state.output.type = "tool_result"
             /\ ~Has(state.output, "summary") /\ ~Has(state, "summary")
             /\ Has(state.output, "note")
    /\ (Has(state, "output") /\ state.output.type = "tool_result_with_summary") =>
          /\ Has(state.output, "summary")
          /\ SummarizeCalls # {}
          /\ \A ev \in EvidenceOf(state.output.summary) :
                ev # <<>> /\ IsSubstring(ev, SourceText)

\* a summary with one grounded and one ungrounded item was rejected whole
C11_Witness ==
    /\ pc = "returned"
    /\ \E i \in SummarizeCalls :
          /\ ReplyIsObject(llmCalls[i].reply)
          /\ \E ev \in EvidenceOf(ReplySummary(llmCalls[i].reply)) : IsSubstring(ev, SourceText)
          /\ \E ev \in EvidenceOf(ReplySummary(llmCalls[i].reply)) : ~IsSubstring(ev, SourceText)
    /\ result.type = "tool_result"

SearchToolNames == {"search_sharepoint", "search_servicenow_tickets", "search_policies"}

QueryWantsSummary == \E i \in 1..Len(state.user_query) : state.user_query[i] = "summarize"

\* C12: the summarize node calls the generator only if (SAFE_SUMMARIZE is
\* on or the query asks for a summary) and a typed result exists and its
\* content is not NOT_FOUND and not (the tool is a search_ tool while the
\* query did not ask for a summary).
C12_SummarizeCallsOnlyWhenDue ==
    SummarizeCalls # {} =>
        /\ Cardinality(SummarizeCalls) = 1
        /\ env.SAFE_SUMMARIZE = "1" \/ QueryWantsSummary
        /\ Has(state, "typed") /\ state.typed # EmptyDict
        /\ ~(Has(state.typed, "content") /\ state.typed.content = <<"NOT_FOUND">>)
        /\ ~(state.tool \in SearchToolNames /\ ~QueryWantsSummary)

C12_Witness ==
    /\ SummarizeCalls # {}
    /\ state.tool \in SearchToolNames
    /\ env.SAFE_SUMMARIZE = "0"
    /\ pc = "returned"

\* C13: with summarization enabled and a typed result whose content is
\* NOT_FOUND, the summarize node makes no generator call and leaves the
\* output as call_tool wrote it (type tool_result, plan, typed, raw) plus a
\* note, without a summary.
C13_NotFoundSkipsSummary ==
    (/\ Ran("grounded_summarize")
     /\ env.SAFE_SUMMARIZE = "1"
     /\ Has(state, "typed") /\ Has(state.typed, "content")
     /\ state.typed.content = <<"NOT_FOUND">>) =>
        /\ SummarizeCalls = {}
        /\ pc # "raised"
        /\ DOMAIN state.output = {"type", "plan", "typed", "raw", "note"}
        /\ state.output.type = "tool_result"
        /\ state.output.plan = state.plan
        /\ state.output.typed = state.typed
        /\ state.output.raw = state.raw_tool_result
        /\ state.output.note = "Summary skipped: content is NOT_FOUND."
        /\ ~Has(state, "summary")

C13_Witness ==
    /\ pc = "returned"
    /\ env.SAFE_SUMMARIZE = "1"
    /\ Has(state, "typed") /\ Has(state.typed, "content")
    /\ state.typed.content = <<"NOT_FOUND">>
    /\ Has(result, "note")

DecodeFailed ==
    /\ Has(state, "raw_tool_result")
    /\ parse_typed_tool_output(state.server, state.tool, state.raw_tool_result).exc # "none"

\* C14: a typed-decoding failure never blocks the run and never drops the
\* payload: the run goes on through grounded_summarize to the end, blocked
\* stays unset, and the output is {type: tool_result, plan, note, raw} with
\* the raw response as the host returned it.
C14_DecodeFailurePassesThrough ==
    DecodeFailed =>
        /\ ~Has(state, "blocked")
        /\ ~Has(state, "typed")
        /\ pc \in {"grounded_summarize", "END", "returned"}
        /\ (Ended => visited = StageOrder)
        /\ state.output = [type |-> "tool_result", plan |-> state.plan,
                           note |-> "Typed parsing blocked",
                           raw |-> state.raw_tool_result]
        /\ SummarizeCalls = {}
        /\ (pc = "returned" => result = state.output)

C14_Witness ==
    /\ DecodeFailed
    /\ Has(state.raw_tool_result, "result")
    /\ QueryWantsSummary
    /\ pc = "returned"

\* C15: a run makes at most one generator call for planning and at most one
\* for summarization, planning first, and at most one host call; a host
\* call that raised is not repeated.
C15_AtMostOneCallEach ==
    /\ Cardinality(PlanCalls) <= 1
    /\ Cardinality(SummarizeCalls) <= 1
    /\ Len(llmCalls) <= 2
    /\ \A i \in PlanCalls : i = 1
    /\ Len(hostCalls) <= 1

C15_Witness ==
    /\ pc = "raised"
    /\ Len(hostCalls) = 1
    /\ Cardinality(PlanCalls) = 1

----------------------------------------------------------------------------
(* Discovery *)

AnsweredWithResult == {srv \in DOMAIN discovery : Has(discovery[srv], "result")}

\* C18: whatever each server's tools/list did (result, error response,
\* timeout, protocol error, result with a malformed tools list),
\* discover_tools completes and hands over to plan with a catalog and an
\* allowlist of exactly the servers whose response carried a result.
C18_DiscoveryAlwaysCompletes ==
    (visited # <<>> /\ Last(visited) = "discover_tools") =>
        /\ pc = "plan"
        /\ Has(state, "allowlist") /\ DOMAIN state.allowlist = AnsweredWithResult
        /\ Has(state, "catalog_dict") /\ DOMAIN state.catalog_dict = AnsweredWithResult

----------------------------------------------------------------------------
(* Sessions *)

Inbox == sessions[Cur]._inbox

IdWaits == {"init_wait", "list_wait", "call_wait"}

\* the step in which a wait_for_id returns a response
WaitReturned == host.pc \in IdWaits /\ host'.pc # host.pc /\ waits' # <<>>

\* C16 as stated: a response is returned only by a wait registered for the
\* very id the response carries.
C16_ReturnedIdIsWaitedId ==
    waits # <<>> => waits[1].resp.id = IntId(waits[1].rpc_id)

\* C16: response matching goes by int(id).  Under every interleaving of the
\* reader and the calling thread, a wait for id X returns the entry stored
\* under X, whose id converts to X, and removes that entry only; an entry
\* leaves the table only through a wait for its own key.
C16_MatchingByIntId ==
    [][ /\ WaitReturned =>
            /\ waits'[1].rpc_id = host.rid
            /\ host.rid \in DOMAIN Inbox
            /\ waits'[1].resp = Inbox[host.rid]
            /\ int(waits'[1].resp.id).exc = "none"
            /\ int(waits'[1].resp.id).n = host.rid
            /\ sessions'[Cur]._inbox = Pop(Inbox, host.rid)
        /\ \A k \in DOMAIN Inbox :
              \/ k \in DOMAIN sessions'[Cur]._inbox
              \/ WaitReturned /\ k = host.rid
      ]_vars

\* the wait for the tools/list response has returned it while the table
\* held the answer to the earlier notifications/initialized under another
\* id, and that entry is still there
C16_Witness ==
    /\ host.pc = "close"
    /\ waits # <<>>
    /\ waits[1].resp = [id |-> IntId(waits[1].rpc_id), result |-> "tools/list"]
    /\ \E k \in DOMAIN Inbox :
          /\ k # waits[1].rpc_id
          /\ Inbox[k] = [id |-> IntId(k), error |-> "notifications/initialized"]

\* C19: every wait ends.  The wait for the endpoint event and every
\* wait_for_id (handshake, discovery, invocation) is eventually left, with
\* the response or with an exception; when the reader has stopped or died
\* and the response is not in the table, the wait ends in an exception.
C19_EveryWaitEnds ==
    /\ (host.pc \in WaitStates) ~> (host.pc \notin WaitStates)
    /\ (/\ host.pc \in IdWaits
        /\ sessions[Cur].reader # "running"
        /\ host.rid \notin DOMAIN Inbox) ~> (host.pc \notin WaitStates /\ waits = <<>>)

\* close() came while tools/call was in flight; the reader stopped without
\* reporting anything and the waiter left with TimeoutError
C19_Witness ==
    /\ host.pc = "close"
    /\ host.exc = "TimeoutError"
    /\ sessions[Cur].reader = "stopped"
    /\ \E k \in 1..Len(sent[Cur]) : sent[Cur][k].method = "tools/call"

\* C20: no two requests sent on a session carry the same id.
C20_RequestIdsUnique ==
    \A j, k \in 1..Len(sent[Cur]) : j # k => sent[Cur][j].id # sent[Cur][k].id

\* C17: connect_all treats the servers independently: once it is over,
\* whether or not a connect() failed, connecting was attempted for every
\* configured server.
C17_EveryServerIsAttempted ==
    pc # "connect_all" => SetOfSeq(attempted) = Configured

\* C21: an answer that arrives before its wait is kept.  Each answer of the
\* server is stored under its id when the reader delivers it, whether or
\* not a wait for that id has begun, and a stored entry stays as it is
\* until a wait for exactly its id returns it.
C21_AnswerKeptUntilWaitedFor ==
    [][ /\ \A k \in (1..Len(sent[Cur])) \ answered[Cur] :
              k \in answered'[Cur] =>
                  /\ sent[Cur][k].id \in DOMAIN sessions'[Cur]._inbox
                  /\ sessions'[Cur]._inbox[sent[Cur][k].id] \in Answers(sent[Cur][k])
        /\ strays' = strays =>
              \A x \in {y \in DOMAIN Inbox :
                            \E k \in answered[Cur] : Inbox[y] \in Answers(sent[Cur][k])} :
                  \/ /\ x \in DOMAIN sessions'[Cur]._inbox
                     /\ sessions'[Cur]._inbox[x] = Inbox[x]
                  \/ /\ WaitReturned
                     /\ x = host.rid
                     /\ waits'[1].resp = Inbox[x]
      ]_vars

Commands == {"tools/list", "tools/call"}

\* the step in which a request is POSTed
Sends(method) ==
    /\ Len(sent'[Cur]) = Len(sent[Cur]) + 1
    /\ sent'[Cur][Len(sent'[Cur])].method = method

\* C22: tools/list and tools/call are sent only after the handshake.  When
\* one of them is POSTed the endpoint event has been received, initialize
\* and then notifications/initialized have been sent and nothing else, and
\* the latest wait returned a response without error for the id of
\* initialize; initialize itself is sent only once the endpoint is known,
\* the notification only after that response.
C22_CommandsOnlyAfterHandshake ==
    [][ /\ \A m \in Commands : Sends(m) =>
              /\ sessions[Cur].messages_url # "None"
              /\ Len(sent[Cur]) = 2
              /\ sent[Cur][1].method = "initialize"
              /\ sent[Cur][2].method = "notifications/initialized"
              /\ waits # <<>>
              /\ waits[1].rpc_id = sent[Cur][1].id
              /\ ~Has(waits[1].resp, "error")
              /\ host.exc = "none"
        /\ Sends("initialize") =>
              sessions[Cur].messages_url # "None" /\ sent[Cur] = <<>>
        /\ Sends("notifications/initialized") =>
              /\ Len(sent[Cur]) = 1
              /\ waits # <<>> /\ waits[1].rpc_id = sent[Cur][1].id
              /\ ~Has(waits[1].resp, "error")
      ]_vars

\* tools/call has been sent on a session whose handshake went through
C22_Witness ==
    /\ Len(sent[Cur]) = 3
    /\ sent[Cur][3].method = "tools/call"
    /\ host.pc = "call_wait"


(* The lock *)

\* the fields of the session that both threads touch, one of them writing
Shared ==
    {f \in {a.field : a \in accesses} :
        \E a, b \in accesses :
            /\ a.field = f /\ b.field = f
            /\ a.by = "reader" /\ b.by = "caller"
            /\ "write" \in {a.mode, b.mode}}

\* C23: the response table is the only state of a session that the reader
\* thread and the calling thread share; every access to shared state is made
\* holding the session's lock, and no field written by the reader is read by
\* the calling thread outside the lock
C23_SharedStateOnlyUnderLock ==
    /\ Shared \subseteq {"_inbox"}
    /\ \A a \in accesses : a.field \in Shared => a.locked
    /\ \A a, b \in accesses :
          /\ a.by = "reader" /\ a.mode = "write"
          /\ b.by = "caller" /\ b.mode = "read"
          /\ b.field = a.field
          => b.locked

(* Blocking *)

IsBlocked(s) == Has(s, "blocked") /\ s.blocked = TRUE

\* C24: blocked is never cleared once set: the step that sets it records a
\* reason and an output of type "blocked" carrying that reason, and from then
\* on blocked stays true and reason and output stay as recorded until the run
\* ends, which returns that output
C24_BlockedIsFinal ==
    [][ /\ (~IsBlocked(state) /\ IsBlocked(state')) =>
              /\ Has(state', "reason") /\ Has(state', "output")
              /\ state'.output.type = "blocked"
              /\ state'.output.reason = state'.reason
        /\ IsBlocked(state) =>
              /\ IsBlocked(state')
              /\ state'.reason = state.reason
              /\ state'.output = state.output
              /\ pc' = "returned"
              /\ result' = state.output
      ]_vars

C24_Witness ==
    /\ IsBlocked(state)
    /\ pc = "returned"
    /\ Last(visited) = "validate_and_select"
    /\ result = state.output

(* Allowlist and catalog *)

\* the (server, capability) pairs of an allowlist: server -> set of names
AllowlistPairs(allowlist) ==
    {p \in (DOMAIN allowlist) \X UNION {allowlist[x] : x \in DOMAIN allowlist} :
        p[2] \in allowlist[p[1]]}

\* the (server, capability-name) pairs of a catalog: server -> list of entries
CatalogPairs(catalog) ==
    UNION {{<<srv, catalog[srv][i].name>> : i \in 1..Len(catalog[srv])} :
              srv \in DOMAIN catalog}

\* C25: for every discovery payload, once discovery has run the state holds
\* an allowlist and a catalog built from that payload, and the allowlist's
\* (server, capability) pairs are exactly the catalog's (server, name) pairs
C25_AllowlistMatchesCatalog ==
    Ran("discover_tools") =>
        /\ Has(state, "allowlist")
        /\ Has(state, "catalog_dict")
        /\ AllowlistPairs(state.allowlist) = CatalogPairs(state.catalog_dict)

(* Length of the source text *)

\* C26: the source text the summarize node sends to the generator and grounds
\* against never exceeds max_chars characters plus the truncation marker
C26_SourceTextIsBounded ==
    (SummarizeCalls # {} /\ Has(state, "typed")) =>
        Chars(SourceText) <= max_chars + MarkerChars

(* Extraction of the JSON object from the generator's text *)

\* the nesting depth of braces after the first i tokens of text
Depth(text, i) ==
    LET d[k \in 0..i] ==
            IF k = 0 THEN 0
            ELSE d[k - 1] + (IF text[k] = "{" THEN 1 ELSE IF text[k] = "}" THEN -1 ELSE 0)
    IN d[i]

\* the positions that close the object opened by the first "{"
ClosesFirst(text) ==
    {j \in (Find(text, "{") + 1)..Len(text) :
        /\ Find(text, "{") # 0
        /\ Depth(text, j) = 0
        /\ \A k \in Find(text, "{")..(j - 1) : Depth(text, k) > 0}

\* the first balanced {...} substring of text
FirstBalanced(text) ==
    SubSeq(text, Find(text, "{"), CHOOSE j \in ClosesFirst(text) : TRUE)

\* text holds a balanced object that is a JSON object, followed by further
\* text with a brace in it
ObjectThenBraces(text) ==
    /\ ClosesFirst(text) # {}
    /\ JsonOk(FirstBalanced(text))
    /\ \E k \in ((CHOOSE j \in ClosesFirst(text) : TRUE) + 1)..Len(text) :
          text[k] \in {"{", "}"}

\* C27: when the generator's text is not JSON as a whole and holds a balanced
\* JSON object followed by further text containing braces, chat_json returns
\* the first balanced object
C27_FirstBalancedObject ==
    \A i \in 1..Len(llmCalls) :
        LET reply == llmCalls[i].reply
        IN (reply.exc = "none" /\ ObjectThenBraces(Strip(reply.content))) =>
              /\ chat_json(reply).exc = "none"
              /\ chat_json(reply).value = JsonValue(FirstBalanced(Strip(reply.content)))

====
